---------------------------- MODULE Spec2Model ----------------------------
(***************************************************************************)
(* A model of the data-quality audit (modules/data_audit.py), the          *)
(* interactive cleaner (modules/cleaning.py), the insight generator         *)
(* (modules/insights.py), the cleaning engine (src/cleaning_engine.py) and  *)
(* the session wiring of app.py.                                            *)
(*                                                                         *)
(* Tables.  A pandas DataFrame is modelled as an ordered list of column     *)
(* names, one dtype per column and a list of rows.  Rows are kept          *)
(* run-length encoded: a block [cells, count] stands for `count`           *)
(* consecutive identical rows, so that tables of 10 or 100 rows (where the  *)
(* 1% and 10% thresholds of the audit differ from "any missing value") stay *)
(* enumerable.  Every operator below is defined on the rows the blocks      *)
(* stand for.                                                               *)
(*                                                                         *)
(* Numbers.  Python floats are modelled as exact rationals [n, d] in lowest *)
(* terms with d > 0; NaN/None/NaT are the one missing marker NULL.          *)
(***************************************************************************)
EXTENDS Integers, Sequences, FiniteSets, TLC

VARIABLES
    df,            \* SpecAudit: the table handed to run_audit
    results,       \* SpecAudit: what run_audit(df) produced
    df0,           \* SpecAudit: the table of the previous audit
    results0,      \* SpecAudit: the report of the previous audit
    pc,            \* SpecAudit: "input", "audited" or "reaudited"
    raw_df,        \* st.session_state.raw_df: the table as loaded
    clean_df,      \* st.session_state.clean_df: the working table
    cleaning_log,  \* st.session_state.cleaning_log: the messages of the steps
    engine,        \* st.session_state.engine: a CleaningEngine
    last,          \* the last handler that ran, the table it found and its outcome
    objects,       \* which of the names of the session are bound to one DataFrame object
    selected,      \* the values chosen in the two multiselects of the sidebar
    loaded         \* the table as load_data returned it when the session began

auditVars == <<df, results, df0, results0, pc>>
sessionVars == <<raw_df, clean_df, cleaning_log, engine, last, objects, selected, loaded>>
vars == <<df, results, df0, results0, pc, raw_df, clean_df, cleaning_log, engine, last,
         objects, selected, loaded>>

---------------------------------------------------------------------------
(* Bounds of the model *)

\* most blocks of identical rows in an input table
MaxBlocks == 2

\* ticks of the clock per second (timestamps are finer than strftime's %S)
TicksPerSecond == 2

\* the wall clock, in ticks, when the audit runs
Now == 4

\* the calendar year of the wall clock
CurrentYear == 2026

\* how many identical rows a block may stand for
Counts == {1, 9, 99}

\* most cleaning steps of a session
MaxLog == 2

\* how many identical rows a block of a session's table may stand for
SessionCounts == {1, 2}

---------------------------------------------------------------------------
(* Exact rationals *)

Abs(x) == IF x < 0 THEN -x ELSE x

RECURSIVE GCD(_, _)
GCD(a, b) == IF b = 0 THEN a ELSE GCD(b, a % b)

\* the rational n/d in lowest terms, d > 0
R(n, d) ==
    LET s == IF d < 0 THEN -1 ELSE 1
        g == GCD(Abs(n), Abs(d))
    IN  [n |-> (s * n) \div g, d |-> (s * d) \div g]

RInt(i) == [n |-> i, d |-> 1]
RAdd(a, b) == R(a.n * b.d + b.n * a.d, a.d * b.d)
RSub(a, b) == R(a.n * b.d - b.n * a.d, a.d * b.d)
RMul(a, b) == R(a.n * b.n, a.d * b.d)
RDivInt(a, k) == R(a.n, a.d * k)
RLess(a, b) == a.n * b.d < b.n * a.d
RLeq(a, b) == a.n * b.d <= b.n * a.d
RMax(a, b) == IF RLess(a, b) THEN b ELSE a

\* f"{x:.2f}": the decimal with two places nearest to x (ties to even), as a
\* number of hundredths
Fmt2(x) ==
    LET a == Abs(x.n) * 100
        q == a \div x.d
        r == a % x.d
        up == IF 2 * r > x.d THEN q + 1
              ELSE IF 2 * r = x.d THEN q + (q % 2)
              ELSE q
    IN  IF x.n < 0 THEN -up ELSE up

\* the sum of a sequence of integers, and of a sequence of rationals
RECURSIVE SumInts(_)
SumInts(s) == IF s = <<>> THEN 0 ELSE Head(s) + SumInts(Tail(s))

RECURSIVE SumRs(_)
SumRs(s) == IF s = <<>> THEN RInt(0) ELSE RAdd(Head(s), SumRs(Tail(s)))

---------------------------------------------------------------------------
(* Cells *)

NULL == [k |-> "null", n |-> 0, d |-> 1, s |-> ""]
Num(i) == [k |-> "num", n |-> i, d |-> 1, s |-> ""]
NumR(x) == [k |-> "num", n |-> x.n, d |-> x.d, s |-> ""]
Str(t) == [k |-> "str", n |-> 0, d |-> 1, s |-> t]
Ts(t) == [k |-> "ts", n |-> t, d |-> 1, s |-> ""]

isnull(c) == c.k = "null"
ValOf(c) == [n |-> c.n, d |-> c.d]

---------------------------------------------------------------------------
(* Tables *)

\* len(df)
total_rows_of(t) == SumInts([i \in 1..Len(t.blocks) |-> t.blocks[i].count])

\* df.empty: some axis has length 0
empty(t) == Len(t.cols) = 0 \/ total_rows_of(t) = 0

\* col in df.columns
HasCol(t, col) == \E i \in 1..Len(t.cols) : t.cols[i] = col

ColIdx(t, col) == CHOOSE i \in 1..Len(t.cols) : t.cols[i] = col

\* df[col]: the column as a run-length encoded series
Series(t, col) ==
    LET j == ColIdx(t, col)
    IN  [i \in 1..Len(t.blocks) |->
            [v |-> t.blocks[i].cells[j], count |-> t.blocks[i].count]]

\* mask.sum(): the rows of the series whose index is in the mask
mask_sum(s, mask) ==
    SumInts([i \in 1..Len(s) |-> IF i \in mask THEN s[i].count ELSE 0])

\* s.isnull().sum()
isnull_sum(s) == mask_sum(s, {i \in 1..Len(s) : isnull(s[i].v)})

\* s.nunique(): distinct non-missing values
nunique(s) == Cardinality({s[i].v : i \in {j \in 1..Len(s) : ~isnull(s[j].v)}})


---------------------------------------------------------------------------
(* pandas helpers used by run_audit *)

\* the texts pd.to_datetime can parse, and the instant each one names
ParsableDates == {"2020-01-01 00:00:00"}
TicksOf(text) == Now - 3

\* pd.to_datetime(s) with errors='raise' succeeds on these cells only
CanParse(c) == c.k \in {"null", "ts"} \/ (c.k = "str" /\ c.s \in ParsableDates)

\* pd.to_datetime of one cell that can be parsed
to_datetime(c) == IF c.k = "str" THEN Ts(TicksOf(c.s)) ELSE c

\* Series.max() of a datetime series: the latest instant, NaT when none
max_ts(s) ==
    LET T == {to_datetime(s[i].v).n : i \in {j \in 1..Len(s) : ~isnull(s[j].v)}}
    IN  IF T = {} THEN NULL ELSE Ts(CHOOSE x \in T : \A y \in T : y <= x)

\* Timestamp.strftime("%Y-%m-%d %H:%M:%S"): second precision
strftime(c) == ToString(c.n \div TicksPerSecond)

\* a comparison of a column with a number raises TypeError on text cells
Comparable(s) == \A i \in 1..Len(s) : s[i].v.k \in {"null", "num"}

\* as duplicated_sum, had the code passed keep=False: every row of a group of
\* equal keys is counted, the first one too
duplicated_sum_keep_false(s, seen) ==
    SumInts([i \in 1..Len(s) |->
                IF s[i].count > 1 \/ \E j \in 1..Len(s) : j # i /\ s[j].v = s[i].v
                THEN s[i].count ELSE 0])

\* df.duplicated(subset=...).sum() (keep='first'; missing keys are equal to each
\* other): rows whose key was seen in an earlier row
RECURSIVE duplicated_sum(_, _)
duplicated_sum(s, seen) ==
    IF s = <<>> THEN 0
    ELSE LET h == Head(s)
         IN  (IF h.v \in seen THEN h.count ELSE h.count - 1)
             + duplicated_sum(Tail(s), seen \cup {h.v})

---------------------------------------------------------------------------
(* modules/data_audit.py: run_audit *)

key_fields == {"Report Number", "Local Case Number", "Agency Name", "Crash Date/Time"}
primary_key == "Report Number"

Finding(kind, col, n) == [kind |-> kind, col |-> col, n |-> n]

\* (missing_count / total_rows) * 100
missing_pct(t, col) == R(isnull_sum(Series(t, col)) * 100, total_rows_of(t))

\* as status_of, had the 1% threshold been used for every column
status_of_one_threshold(col, pct) ==
    IF col \in key_fields /\ RLess(RInt(1), pct) THEN "Critical"
    ELSE IF RLess(RInt(1), pct) THEN "Warning"
    ELSE "Valid"

\* the status logic of the audit loop
status_of(col, pct) ==
    IF col \in key_fields /\ RLess(RInt(1), pct) THEN "Critical"
    ELSE IF RLess(RInt(10), pct) THEN "Warning"
    ELSE "Valid"

\* one entry of results['column_stats']
column_stat(t, i) ==
    LET col == t.cols[i]
        pct == missing_pct(t, col)
    IN  [column_name |-> col,
         type |-> t.dtype[i],
         pct_missing |-> Fmt2(pct),
         unique_values |-> nunique(Series(t, col)),
         status |-> status_of(col, pct)]

\* the findings the audit loop appends, in column order
RECURSIVE loop_summary(_, _)
loop_summary(t, i) ==
    IF i > Len(t.cols) THEN <<>>
    ELSE LET col == t.cols[i]
             pct == missing_pct(t, col)
         IN  (IF status_of(col, pct) = "Critical"
              THEN <<Finding("key_field_missing", col, Fmt2(pct))>>
              ELSE <<>>) \o loop_summary(t, i + 1)

\* as completeness_of, had the sum been divided by the row count
completeness_of_by_rows(t) ==
    RDivInt(SumRs([i \in 1..Len(t.cols) |-> RSub(RInt(100), missing_pct(t, t.cols[i]))]),
            total_rows_of(t))

\* sum(completeness_metrics) / len(completeness_metrics)
completeness_of(t) ==
    RDivInt(SumRs([i \in 1..Len(t.cols) |-> RSub(RInt(100), missing_pct(t, t.cols[i]))]),
            Len(t.cols))

duplicate_count_of(t) == duplicated_sum(Series(t, primary_key), {})

\* as consistency_of, had a table without the primary key scored 0
consistency_of_absent_key_fails(t) ==
    IF HasCol(t, primary_key)
    THEN RSub(RInt(100), R(duplicate_count_of(t) * 100, total_rows_of(t)))
    ELSE RInt(0)

\* results['scores']['consistency']
consistency_of(t) ==
    IF HasCol(t, primary_key)
    THEN RSub(RInt(100), R(duplicate_count_of(t) * 100, total_rows_of(t)))
    ELSE RInt(100)

future_dates_of(t) ==
    IF HasCol(t, "Crash Date/Time")
    THEN LET s == Series(t, "Crash Date/Time")
         IN  mask_sum(s, {i \in 1..Len(s) :
                             ~isnull(s[i].v) /\ to_datetime(s[i].v).n > Now})
    ELSE 0

invalid_years_of(t) ==
    IF HasCol(t, "Vehicle Year")
    THEN LET s == Series(t, "Vehicle Year")
         IN  mask_sum(s, {i \in 1..Len(s) :
                             ~isnull(s[i].v) /\ RLess(RInt(CurrentYear + 1), ValOf(s[i].v))})
    ELSE 0

neg_speeds_of(t) ==
    IF HasCol(t, "Speed Limit")
    THEN LET s == Series(t, "Speed Limit")
         IN  mask_sum(s, {i \in 1..Len(s) :
                             ~isnull(s[i].v) /\ RLess(ValOf(s[i].v), RInt(0))})
    ELSE 0

\* as accuracy_issues_count_of, had the negative speed limits not been added
accuracy_issues_count_without_speeds(t) == future_dates_of(t) + invalid_years_of(t)

accuracy_issues_count_of(t) == future_dates_of(t) + invalid_years_of(t) + neg_speeds_of(t)

\* as accuracy_of, had the divisor counted only the checks whose column exists
accuracy_of_checks_that_ran(t) ==
    LET ran == Cardinality({c \in {"Crash Date/Time", "Vehicle Year", "Speed Limit"} :
                               HasCol(t, c)})
    IN  RMax(RInt(0),
             RMul(RSub(RInt(1), R(accuracy_issues_count_of(t),
                                  total_rows_of(t) * (IF ran = 0 THEN 1 ELSE ran))),
                  RInt(100)))

\* max(0, (1 - issues / (total_rows * 3)) * 100)
accuracy_of(t) ==
    RMax(RInt(0),
         RMul(RSub(RInt(1), R(accuracy_issues_count_of(t), total_rows_of(t) * 3)),
              RInt(100)))

\* as health_of, had the mean been taken over four dimensions
health_of_four(scores) ==
    RDivInt(RAdd(RAdd(scores["completeness"], scores["consistency"]), scores["accuracy"]), 4)

\* (completeness + consistency + accuracy) / 3
health_of(scores) ==
    RDivInt(RAdd(RAdd(scores["completeness"], scores["consistency"]), scores["accuracy"]), 3)

\* the findings of sections 3 and 4, in the order the code appends them
checks_summary(t) ==
    (IF HasCol(t, primary_key) /\ duplicate_count_of(t) > 0
     THEN <<Finding("duplicate_ids", primary_key, duplicate_count_of(t))>> ELSE <<>>)
    \o (IF future_dates_of(t) > 0
        THEN <<Finding("future_dates", "Crash Date/Time", future_dates_of(t))>> ELSE <<>>)
    \o (IF invalid_years_of(t) > 0
        THEN <<Finding("invalid_years", "Vehicle Year", invalid_years_of(t))>> ELSE <<>>)
    \o (IF neg_speeds_of(t) > 0
        THEN <<Finding("neg_speeds", "Speed Limit", neg_speeds_of(t))>> ELSE <<>>)

\* the dictionary run_audit starts from, and returns for an empty table
initial_results ==
    [column_stats |-> <<>>, scores |-> <<>>, summary |-> <<>>, latest_date |-> "N/A"]

Raised(error) == [exception |-> error]

\* run_audit(df): the report, or the exception that leaves it
run_audit(t) ==
    IF empty(t) THEN initial_results
    ELSE IF HasCol(t, "Crash Date/Time")
            /\ \E i \in 1..Len(t.blocks) :
                   ~CanParse(Series(t, "Crash Date/Time")[i].v)
    THEN Raised("DateParseError")                 \* pd.to_datetime, line 24
    ELSE IF HasCol(t, "Crash Date/Time")
            /\ isnull(max_ts(Series(t, "Crash Date/Time")))
    THEN Raised("ValueError")                     \* NaT.strftime, line 25
    ELSE IF \/ HasCol(t, "Vehicle Year") /\ ~Comparable(Series(t, "Vehicle Year"))
            \/ HasCol(t, "Speed Limit") /\ ~Comparable(Series(t, "Speed Limit"))
    THEN Raised("TypeError")                      \* lines 82 and 89
    ELSE LET scores == [key \in {"completeness", "consistency", "accuracy"} |->
                           CASE key = "completeness" -> completeness_of(t)
                             [] key = "consistency" -> consistency_of(t)
                             [] OTHER -> accuracy_of(t)]
         IN  [column_stats |-> [i \in 1..Len(t.cols) |-> column_stat(t, i)],
              scores |-> scores,
              summary |-> loop_summary(t, 1) \o checks_summary(t),
              latest_date |->
                  IF HasCol(t, "Crash Date/Time")
                  THEN strftime(max_ts(Series(t, "Crash Date/Time")))
                  ELSE "N/A",
              health_score |-> health_of(scores)]

---------------------------------------------------------------------------
(* The tables the audit is given *)

\* the values a column of a given dtype holds in the inputs
Domain(col, dtype) ==
    CASE col = "Report Number" -> {NULL, Str("R1"), Str("R2")}
      [] col = "Agency Name" -> {NULL, Str("A1"), Str("A2")}
      [] col = "Crash Date/Time" /\ dtype = "datetime64" ->
            {NULL, Ts(Now - 3), Ts(Now), Ts(Now + 1)}
      [] col = "Crash Date/Time" /\ dtype = "object" ->
            {NULL, Str("2020-01-01 00:00:00"), Str("not a date")}
      [] col = "Vehicle Year" -> {NULL, Num(CurrentYear + 1), Num(CurrentYear + 2)}
      [] col = "Speed Limit" -> {NULL, Num(-5), Num(0)}

Schema(cols, dtype) == [cols |-> cols, dtype |-> dtype]

\* column lists of the audited tables: none, with and without the primary key,
\* with each and with all of the fields the accuracy checks read, and a date
\* column that was never parsed
AuditSchemas ==
    { Schema(<<>>, <<>>),
      Schema(<<"Report Number", "Vehicle Year">>, <<"object", "float64">>),
      Schema(<<"Crash Date/Time", "Speed Limit">>, <<"datetime64", "float64">>),
      Schema(<<"Speed Limit", "Vehicle Year", "Crash Date/Time">>,
             <<"float64", "float64", "datetime64">>),
      Schema(<<"Crash Date/Time">>, <<"object">>) }

\* the rows a schema admits
RowsOf(sc) ==
    {r \in [1..Len(sc.cols) -> UNION {Domain(sc.cols[i], sc.dtype[i]) : i \in 1..Len(sc.cols)}] :
        \A i \in 1..Len(sc.cols) : r[i] \in Domain(sc.cols[i], sc.dtype[i])}

BlocksOf(sc) == [cells : RowsOf(sc), count : Counts]

\* sequences of at most n elements of S
SeqUpTo(S, n) == UNION {[1..k -> S] : k \in 0..n}

TablesOf(sc) ==
    {[cols |-> sc.cols, dtype |-> sc.dtype, blocks |-> b] : b \in SeqUpTo(BlocksOf(sc), MaxBlocks)}

AuditTables == UNION {TablesOf(sc) : sc \in AuditSchemas}

---------------------------------------------------------------------------
(* SpecAudit: a caller audits a table, changes some of its cells and audits *)
(* it again.                                                                *)

NoReport == [exception |-> "not run"]

NoTable == [cols |-> <<>>, dtype |-> <<>>, blocks |-> <<>>]
\* default=[] of the two multiselects
NoFilters == [agencies |-> {}, years |-> {}]

NoHandler ==
    [op |-> "", col |-> "", strategy |-> "", error |-> "", before |-> NoTable,
     log |-> <<>>, msg |-> [kind |-> "", col |-> "", shown |-> ""],
     history |-> <<>>, selected |-> NoFilters]

\* no session is running
NoSession ==
    /\ raw_df = NoTable /\ clean_df = NoTable /\ cleaning_log = <<>>
    /\ engine = [df |-> NoTable, history |-> <<>>]
    /\ last = NoHandler
    /\ objects = {}
    /\ selected = NoFilters
    /\ loaded = NoTable

InitAudit ==
    /\ NoSession
    /\ df \in AuditTables
    /\ df0 = df
    /\ results = NoReport
    /\ results0 = NoReport
    /\ pc = "input"

\* audit_results = run_audit(filtered_df)
RunAudit ==
    /\ pc = "input"
    /\ results' = run_audit(df)
    /\ pc' = "audited"
    /\ UNCHANGED <<df, df0, results0>>
    /\ UNCHANGED sessionVars

\* the table with the cells of column j in block b set to v
WithCell(t, b, j, v) ==
    [t EXCEPT !.blocks[b].cells[j] = v]

\* the caller changes the rows of one block in one column and audits again
Reaudit(b, j, v) ==
    /\ pc = "audited"
    /\ b \in 1..Len(df.blocks)
    /\ j \in 1..Len(df.cols)
    /\ v \in Domain(df.cols[j], df.dtype[j])
    /\ v # df.blocks[b].cells[j]
    /\ df0' = df
    /\ results0' = results
    /\ df' = WithCell(df, b, j, v)
    /\ results' = run_audit(df')
    /\ pc' = "reaudited"
    /\ UNCHANGED sessionVars

NextAudit ==
    \/ RunAudit
    \/ \E b \in 1..MaxBlocks, j \in 1..3 :
          \E v \in UNION {Domain(c, d) : c \in {"Report Number", "Crash Date/Time",
                                                 "Vehicle Year", "Speed Limit"},
                                          d \in {"datetime64", "object"}} :
              Reaudit(b, j, v)

SpecAudit == InitAudit /\ [][NextAudit]_vars

---------------------------------------------------------------------------
(* What the claims about run_audit speak of *)

\* run_audit returned a report of a non-empty table
Returned(r) == "health_score" \in DOMAIN r

\* run_audit returned some report
IsReport(r) == "column_stats" \in DOMAIN r

InPercentRange(x) == RLeq(RInt(0), x) /\ RLeq(x, RInt(100))

ScoreKeys == {"completeness", "consistency", "accuracy"}

\* the findings of one kind in a summary
FindingsOf(summary, kind) ==
    SelectSeq(summary, LAMBDA f : f.kind = kind)

\* C1: every table passed to run_audit (any row count, any columns, any mix of
\* missing, duplicate, future-dated, over-year and negative values) gets a
\* report with a health_score in [0,100] and completeness, consistency and
\* accuracy scores each in [0,100].
C1_ScoresInRange ==
    pc # "input" =>
        /\ Returned(results)
        /\ InPercentRange(results.health_score)
        /\ \A key \in ScoreKeys :
              /\ key \in DOMAIN results.scores
              /\ InPercentRange(results.scores[key])

\* C2: run_audit on an empty table (zero rows, or zero columns) does not raise
\* and returns a report that bears a health_score, has an empty column_stats
\* and has latest_date 'N/A'.
C2_EmptyTableReport ==
    (pc # "input" /\ empty(df)) =>
        /\ IsReport(results)
        /\ "health_score" \in DOMAIN results
        /\ results.column_stats = <<>>
        /\ results.latest_date = "N/A"

\* the tables differ in cells of the timestamp column only
TimestampsOnly(a, b) ==
    /\ a.cols = b.cols /\ a.dtype = b.dtype
    /\ Len(a.blocks) = Len(b.blocks)
    /\ \A i \in 1..Len(a.blocks) :
          /\ a.blocks[i].count = b.blocks[i].count
          /\ \A j \in 1..Len(a.cols) :
                a.cols[j] # "Crash Date/Time" =>
                    a.blocks[i].cells[j] = b.blocks[i].cells[j]

\* C3: for every non-empty table, the returned health_score is
\* (completeness + consistency + accuracy) / 3 of the same report, and a change
\* of timestamps that leaves the three scores as they were leaves it as it was.
C3_HealthIsMeanOfThree ==
    /\ Returned(results) =>
          RMul(RInt(3), results.health_score)
              = RAdd(results.scores["completeness"],
                     RAdd(results.scores["consistency"], results.scores["accuracy"]))
    /\ (/\ pc = "reaudited" /\ Returned(results) /\ Returned(results0)
        /\ TimestampsOnly(df0, df)
        /\ results.scores = results0.scores)
          => results.health_score = results0.health_score

\* a change of the latest timestamp moved latest_date and not the health score
C3_Witness ==
    /\ pc = "reaudited" /\ Returned(results) /\ Returned(results0)
    /\ TimestampsOnly(df0, df)
    /\ results.latest_date # results0.latest_date
    /\ results.scores = results0.scores
    /\ RLess(results.health_score, RInt(100))
    /\ results.health_score = results0.health_score

\* K: the rows whose primary key is that of an earlier row (N less the number
\* of distinct keys; rows without a key share the missing key)
RepeatedKeys(t) ==
    total_rows_of(t)
        - Cardinality({t.blocks[i].cells[ColIdx(t, primary_key)] : i \in 1..Len(t.blocks)})

\* C4: with the primary key present and K of the N rows repeating an earlier
\* key, consistency = 100 * (1 - K / N), and the summary has one duplicate
\* finding stating K when K > 0 and none when K = 0.
C4_ConsistencyFromDuplicates ==
    (Returned(results) /\ HasCol(df, primary_key)) =>
        LET K == RepeatedKeys(df)
            N == total_rows_of(df)
            found == FindingsOf(results.summary, "duplicate_ids")
        IN  /\ K >= 0 /\ K < N
            /\ results.scores["consistency"].n * N
                   = 100 * (N - K) * results.scores["consistency"].d
            /\ IF K > 0 THEN Len(found) = 1 /\ found[1].n = K
                        ELSE found = <<>>

\* 10 rows under two keys: 8 of them repeat an earlier key
C4_Witness ==
    /\ Returned(results) /\ HasCol(df, primary_key)
    /\ RepeatedKeys(df) = 8
    /\ total_rows_of(df) = 10
    /\ results.scores["consistency"] = RInt(20)
    /\ Len(FindingsOf(results.summary, "duplicate_ids")) = 1

\* a cell of a wired field that an accuracy check counts
OutOfRange(col, c) ==
    /\ ~isnull(c)
    /\ \/ col = "Crash Date/Time" /\ to_datetime(c).n > Now
       \/ col = "Vehicle Year" /\ c.n > (CurrentYear + 1) * c.d
       \/ col = "Speed Limit" /\ c.n < 0

\* the rows of the table with an out-of-range value in the column
OutOfRangeCount(t, col) ==
    IF ~HasCol(t, col) THEN 0
    ELSE SumInts([i \in 1..Len(t.blocks) |->
                    IF OutOfRange(col, t.blocks[i].cells[ColIdx(t, col)])
                    THEN t.blocks[i].count ELSE 0])

CheckOf(kind) ==
    CASE kind = "future_dates" -> "Crash Date/Time"
      [] kind = "invalid_years" -> "Vehicle Year"
      [] kind = "neg_speeds" -> "Speed Limit"

\* C5: accuracy = max(0, 100 * (1 - T / (3 N))), T the sum of the three counts,
\* an absent column counting 0 with the divisor still 3 N; each check with a
\* non-zero count adds one finding stating that count.
C5_AccuracyFormula ==
    Returned(results) =>
        LET N == total_rows_of(df)
            T == OutOfRangeCount(df, "Crash Date/Time")
                 + OutOfRangeCount(df, "Vehicle Year")
                 + OutOfRangeCount(df, "Speed Limit")
            acc == results.scores["accuracy"]
        IN  /\ IF T >= 3 * N THEN acc = RInt(0)
               ELSE acc.n * 3 * N = 100 * (3 * N - T) * acc.d
            /\ \A kind \in {"future_dates", "invalid_years", "neg_speeds"} :
                  LET found == FindingsOf(results.summary, kind)
                      n == OutOfRangeCount(df, CheckOf(kind))
                  IN  IF n > 0 THEN Len(found) = 1 /\ found[1].n = n
                               ELSE found = <<>>

\* two checks fire, the third field is absent: 10 of 10 rows in the future and
\* 1 of them with a negative speed limit
C5_Witness ==
    /\ Returned(results)
    /\ ~HasCol(df, "Vehicle Year")
    /\ total_rows_of(df) = 10
    /\ OutOfRangeCount(df, "Crash Date/Time") = 10
    /\ OutOfRangeCount(df, "Speed Limit") = 1
    /\ results.scores["accuracy"] = R(100 * 19, 30)
    /\ Len(results.summary) >= 2

\* b is a with more out-of-range values in wired fields and nothing else changed
InjectedOnly(a, b) ==
    /\ a.cols = b.cols /\ a.dtype = b.dtype
    /\ Len(a.blocks) = Len(b.blocks)
    /\ a # b
    /\ \A i \in 1..Len(a.blocks) :
          /\ a.blocks[i].count = b.blocks[i].count
          /\ \A j \in 1..Len(a.cols) :
                a.blocks[i].cells[j] # b.blocks[i].cells[j] =>
                    /\ OutOfRange(a.cols[j], b.blocks[i].cells[j])
                    /\ ~OutOfRange(a.cols[j], a.blocks[i].cells[j])

\* C6: of two tables of the same N rows that differ only in that the second
\* has additional out-of-range values in a wired field, the second has the
\* strictly lower accuracy score.
C6_AccuracyStrictlyDecreases ==
    (/\ pc = "reaudited" /\ Returned(results) /\ Returned(results0)
     /\ InjectedOnly(df0, df))
        => RLess(results.scores["accuracy"], results0.scores["accuracy"])

C6_Witness ==
    /\ pc = "reaudited" /\ Returned(results) /\ Returned(results0)
    /\ InjectedOnly(df0, df)
    /\ RLess(results0.scores["accuracy"], RInt(100))
    /\ RLess(results.scores["accuracy"], results0.scores["accuracy"])

\* the rows of the table with no value in column j
MissingCount(t, j) ==
    SumInts([i \in 1..Len(t.blocks) |->
                IF t.blocks[i].cells[j].k = "null" THEN t.blocks[i].count ELSE 0])

\* the rows of the table with a value in the named column
PresentRows(t, col) == total_rows_of(t) - MissingCount(t, ColIdx(t, col))

KeyFieldNames == {"Report Number", "Local Case Number", "Agency Name", "Crash Date/Time"}

\* the status the claim gives column j: m of N rows missing is more than p
\* percent when 100 m > p N
ExpectedStatus(t, j) ==
    LET m == MissingCount(t, j)
        N == total_rows_of(t)
    IN  IF t.cols[j] \in KeyFieldNames /\ 100 * m > N THEN "Critical"
        ELSE IF t.cols[j] \notin KeyFieldNames /\ 100 * m > 10 * N THEN "Warning"
        ELSE "Valid"

\* h hundredths is 100 m / N to two decimals: within half a hundredth of it
TwoDecimals(h, m, N) == 2 * Abs(h * N - 10000 * m) <= N

\* the indexes of the columns the claim calls Critical, in column order
CriticalColumns(t) ==
    SelectSeq([j \in 1..Len(t.cols) |-> j], LAMBDA j : ExpectedStatus(t, j) = "Critical")

\* C7: a column is Critical exactly when it is a key field with more than 1%
\* missing, Warning exactly when it is no key field and has more than 10%
\* missing, Valid otherwise; column_stats has one entry per column in column
\* order; every Critical column adds one finding naming it and its missing
\* percentage to two decimals.
C7_ColumnStatus ==
    Returned(results) =>
        LET found == FindingsOf(results.summary, "key_field_missing")
            crit == CriticalColumns(df)
        IN  /\ Len(results.column_stats) = Len(df.cols)
            /\ \A j \in 1..Len(df.cols) :
                  /\ results.column_stats[j].column_name = df.cols[j]
                  /\ results.column_stats[j].status = ExpectedStatus(df, j)
            /\ Len(found) = Len(crit)
            /\ \A i \in 1..Len(found) :
                  /\ found[i].col = df.cols[crit[i]]
                  /\ TwoDecimals(found[i].n, MissingCount(df, crit[i]), total_rows_of(df))

\* 9 of 108 rows (8.33%) miss both the timestamp, a key field, and the speed
\* limit, no key field: Critical and Valid
C7_Witness ==
    /\ Returned(results)
    /\ df.cols = <<"Crash Date/Time", "Speed Limit">>
    /\ total_rows_of(df) = 108
    /\ MissingCount(df, 1) = 9 /\ MissingCount(df, 2) = 9
    /\ results.column_stats[1].status = "Critical"
    /\ results.column_stats[2].status = "Valid"
    /\ results.summary[1] = Finding("key_field_missing", "Crash Date/Time", 833)

\* C8: completeness is the mean over the columns of (100 - missing_pct), that
\* is 100 * (1 - M / (C N)) for M missing cells in C columns of N rows, and is
\* 100 when there is no missing value.
C8_CompletenessIsMean ==
    Returned(results) =>
        LET N == total_rows_of(df)
            C == Len(df.cols)
            M == SumInts([j \in 1..C |-> MissingCount(df, j)])
            comp == results.scores["completeness"]
        IN  /\ comp.n * C * N = 100 * (C * N - M) * comp.d
            /\ M = 0 => comp = RInt(100)

\* three columns of 100 rows, one of them missing in 99 rows: 67
C8_Witness ==
    /\ Returned(results)
    /\ Len(df.cols) = 3
    /\ total_rows_of(df) = 100
    /\ SumInts([j \in 1..3 |-> MissingCount(df, j)]) = 99
    /\ results.scores["completeness"] = RInt(67)

---------------------------------------------------------------------------
(* pandas helpers used by DataCleaner *)

\* the texts of the model in Python's string order
StringsInOrder ==
    <<"2020-01-01 00:00:00", "A1", "A2", "N/A", "R1", "R2", "not a date">>

StrRank(text) == CHOOSE i \in 1..Len(StringsInOrder) : StringsInOrder[i] = text

\* a <= b for two non-missing cells of one kind
CellLeq(a, b) ==
    IF a.k = "str" THEN StrRank(a.s) <= StrRank(b.s) ELSE RLeq(ValOf(a), ValOf(b))

\* the non-missing values of a series, and how many rows hold each
ValuesOf(s) == {s[i].v : i \in {j \in 1..Len(s) : ~isnull(s[j].v)}}
CountOf(s, v) == SumInts([i \in 1..Len(s) |-> IF s[i].v = v THEN s[i].count ELSE 0])
notnull_sum(s) == SumInts([i \in 1..Len(s) |-> IF isnull(s[i].v) THEN 0 ELSE s[i].count])

\* a cell of the kind of c holding the rational x
CellLike(c, x) == [k |-> c.k, n |-> x.n, d |-> x.d, s |-> ""]

\* as mean, had the sum been divided by the number of rows, missing ones too
mean_over_all_rows(s) ==
    IF ValuesOf(s) = {} THEN NULL
    ELSE LET some == CHOOSE v \in ValuesOf(s) : TRUE
             total == SumRs([i \in 1..Len(s) |->
                          IF isnull(s[i].v) THEN RInt(0)
                          ELSE RMul(ValOf(s[i].v), RInt(s[i].count))])
         IN  CellLike(some, RDivInt(total, notnull_sum(s) + isnull_sum(s)))

\* Series.mean() of a numeric or datetime series: NaN / NaT when it has no value
mean(s) ==
    IF ValuesOf(s) = {} THEN NULL
    ELSE LET some == CHOOSE v \in ValuesOf(s) : TRUE
             total == SumRs([i \in 1..Len(s) |->
                          IF isnull(s[i].v) THEN RInt(0)
                          ELSE RMul(ValOf(s[i].v), RInt(s[i].count))])
         IN  CellLike(some, RDivInt(total, notnull_sum(s)))

\* the p-th smallest of the non-missing values of the rows (p from 1)
ValueAt(s, p) ==
    CHOOSE v \in ValuesOf(s) :
        LET below == SumInts([i \in 1..Len(s) |->
                        IF ~isnull(s[i].v) /\ CellLeq(s[i].v, v) /\ s[i].v # v
                        THEN s[i].count ELSE 0])
        IN  below < p /\ p <= below + CountOf(s, v)

\* Series.median(): the middle value, or the mean of the two middle values
median(s) ==
    IF ValuesOf(s) = {} THEN NULL
    ELSE LET W == notnull_sum(s)
             lo == ValueAt(s, (W + 1) \div 2)
             hi == ValueAt(s, (W \div 2) + 1)
         IN  CellLike(lo, RDivInt(RAdd(ValOf(lo), ValOf(hi)), 2))

\* Series.mode(): the most frequent non-missing values, in ascending order
mode(s) ==
    {v \in ValuesOf(s) : \A w \in ValuesOf(s) : CountOf(s, w) <= CountOf(s, v)}

\* mode()[0]
FirstOf(S) == CHOOSE v \in S : \A w \in S : CellLeq(v, w)

\* the dtype a column has once cells of value v were written into it
DtypeWith(dtype, v, written) ==
    IF written /\ v.k = "str" THEN "object" ELSE dtype

\* df[col] = df[col].fillna(val); filling with NaN / NaT fills nothing
fillna(t, col, val) ==
    LET j == ColIdx(t, col)
        filled == \E i \in 1..Len(t.blocks) : isnull(t.blocks[i].cells[j]) /\ ~isnull(val)
    IN  [cols |-> t.cols,
         dtype |-> [t.dtype EXCEPT ![j] = DtypeWith(@, val, filled)],
         blocks |-> [i \in 1..Len(t.blocks) |->
                        IF isnull(t.blocks[i].cells[j])
                        THEN [t.blocks[i] EXCEPT !.cells[j] = val]
                        ELSE t.blocks[i]]]

\* df.dropna(subset=[col])
dropna(t, col) ==
    [t EXCEPT !.blocks = SelectSeq(t.blocks, LAMBDA b : ~isnull(b.cells[ColIdx(t, col)]))]

\* as RowKey, had the subset not been passed on: the whole row is the key
RowKey_of_all_columns(t, b, subset) ==
    [j \in 1..Len(t.cols) |-> b.cells[j]]

\* the key of a row on a subset of the columns (all of them when subset is None)
RowKey(t, b, subset) ==
    [j \in {i \in 1..Len(t.cols) : subset = <<>> \/ \E k \in 1..Len(subset) : subset[k] = t.cols[i]}
        |-> b.cells[j]]

\* df.drop_duplicates(subset=subset): the first row of every key is kept
RECURSIVE keep_first(_, _, _, _)
keep_first(t, blocks, subset, seen) ==
    IF blocks = <<>> THEN <<>>
    ELSE LET key == RowKey(t, Head(blocks), subset)
         IN  (IF key \in seen THEN <<>> ELSE <<[Head(blocks) EXCEPT !.count = 1]>>)
             \o keep_first(t, Tail(blocks), subset, seen \cup {key})

pd_drop_duplicates(t, subset) ==
    [t EXCEPT !.blocks = keep_first(t, t.blocks, subset, {})]

\* pd.to_datetime(df[col], errors='coerce'): what cannot be parsed becomes NaT
to_datetime_coerce(t, col) ==
    LET j == ColIdx(t, col)
    IN  [cols |-> t.cols,
         dtype |-> [t.dtype EXCEPT ![j] = "datetime64"],
         blocks |-> [i \in 1..Len(t.blocks) |->
                        [t.blocks[i] EXCEPT !.cells[j] =
                            IF CanParse(@) THEN to_datetime(@) ELSE NULL]]]

---------------------------------------------------------------------------
(* modules/cleaning.py: DataCleaner *)

Message(kind, col, shown) == [kind |-> kind, col |-> col, shown |-> shown]
NoMessage == Message("", "", "")

\* what a call leaves behind: the exception raised ("" when it returned), the
\* table returned (when raised: the table passed, as the call left it) and
\* the message
Outcome(error, t, msg) == [error |-> error, df |-> t, msg |-> msg]

\* f"{val:.2f}" of what mean() / median() returned
ShownValue(val) ==
    IF isnull(val) THEN "nan"
    ELSE IF val.k = "ts" THEN ".2f"        \* datetime.__format__ is strftime
    ELSE ToString(Fmt2(ValOf(val)))

\* Series.mean() / Series.median() raise TypeError on a column holding text
RaisesTypeError(s) == \E v \in ValuesOf(s) : v.k = "str"

\* DataCleaner.impute_column(df, col, strategy)
impute_column(t, col, strategy) ==
    LET s == Series(t, col)
        before_nulls == isnull_sum(s)
        j == ColIdx(t, col)
    IN  CASE strategy \in {"Mean", "Median"} ->
                IF RaisesTypeError(s) THEN Outcome("TypeError", t, NoMessage)
                ELSE LET val == IF strategy = "Mean" THEN mean(s) ELSE median(s)
                     IN  IF isnull(val) /\ t.dtype[j] = "datetime64"
                         THEN Outcome("ValueError", t, NoMessage)   \* format of NaT
                         ELSE Outcome("", fillna(t, col, val),
                                      Message("Imputed " \o strategy, col, ShownValue(val)))
          [] strategy = "Mode" ->
                LET val == IF mode(s) # {} THEN FirstOf(mode(s)) ELSE Str("N/A")
                IN  Outcome("", fillna(t, col, val),
                            Message("Imputed Mode", col, ToString(val)))
          [] strategy = "Drop" ->
                Outcome("", dropna(t, col),
                        Message("Dropped rows", col, ToString(before_nulls)))
          [] OTHER -> Outcome("", t, Message("", "", ""))

\* DataCleaner.drop_duplicates(df, subset)
drop_duplicates(t, subset) ==
    LET after == pd_drop_duplicates(t, subset)
        dropped == total_rows_of(t) - total_rows_of(after)
    IN  Outcome("", after,
                Message("Removed duplicate rows", ToString(subset), ToString(dropped)))

\* as standardize_dates, had the values missing before the call been counted
\* as failures too
standardize_dates_counting_missing(t, col) ==
    LET after == to_datetime_coerce(t, col)
        failed == isnull_sum(Series(after, col))
    IN  Outcome("", after,
                Message("Standardized to datetime", col,
                        IF failed > 0 THEN ToString(failed) ELSE ""))

\* DataCleaner.standardize_dates(df, col)
standardize_dates(t, col) ==
    LET before_count == isnull_sum(Series(t, col))
        after == to_datetime_coerce(t, col)
        after_count == isnull_sum(Series(after, col))
        failed == after_count - before_count
    IN  Outcome("", after,
                Message("Standardized to datetime", col,
                        IF failed > 0 THEN ToString(failed) ELSE ""))

---------------------------------------------------------------------------
(* src/cleaning_engine.py and app.py: the session *)

\* the names of the session that are bound to a DataFrame
Names == {"raw_df", "clean_df", "engine.df"}

\* the two names are bound to one object: a write through one shows in the other
SameObject(h, a, b) == \E B \in h : a \in B /\ b \in B

\* the name is bound to a DataFrame that pandas has just built (dropna(),
\* drop_duplicates() and boolean indexing return a new object)
NewObject(h, name) == ({B \ {name} : B \in h} \ {{}}) \cup {{name}}

\* as copy_of, had the table been assigned without .copy(): name = src
copy_of_same_object(h, name, src) ==
    {IF src \in B THEN B \cup {name} ELSE B : B \in ({B \ {name} : B \in h} \ {{}})}

\* name = src.copy(): a new object with the contents of src
copy_of(h, name, src) == NewObject(h, name)

\* what a name holds once the object bound to target was changed in place to v
Written(h, name, target, v, cur) == IF SameObject(h, name, target) THEN v ELSE cur

\* CleaningEngine(df): a copy of the table and an empty history
CleaningEngine(t) == [df |-> t, history |-> <<>>]

\* the sidebar (app.py lines 88-96) runs before every page: sorted() raises on
\* agency names that mix text with missing values, astype(int) on text years
sidebar_runs(t) ==
    /\ HasCol(t, "Agency Name")
    /\ LET a == Series(t, "Agency Name")
       IN  ~(isnull_sum(a) > 0 /\ ValuesOf(a) # {})
    /\ HasCol(t, "Vehicle Year") =>
          \A v \in ValuesOf(Series(t, "Vehicle Year")) : v.k # "str"

\* the options of the two multiselects: the agencies and the years of the
\* working table
agencies_of(t) ==
    {t.blocks[i].cells[ColIdx(t, "Agency Name")] : i \in 1..Len(t.blocks)}

years_of(t) ==
    IF HasCol(t, "Vehicle Year")
    THEN {v.n \div v.d : v \in ValuesOf(Series(t, "Vehicle Year"))}
    ELSE {}

\* filtered_df: a copy of the working table, cut down to the selected agencies
\* and years when some are selected
filtered_view(t, sel) ==
    LET by_agency ==
            IF sel.agencies # {}
            THEN SelectSeq(t.blocks,
                           LAMBDA b : b.cells[ColIdx(t, "Agency Name")] \in sel.agencies)
            ELSE t.blocks
        by_year ==
            IF sel.years # {}
            THEN SelectSeq(by_agency,
                           LAMBDA b : LET c == b.cells[ColIdx(t, "Vehicle Year")]
                                      IN  c.k = "num" /\ \E y \in sel.years : c.n = y * c.d)
            ELSE by_agency
    IN  [t EXCEPT !.blocks = by_year]

filtered_df == filtered_view(clean_df, selected)

\* a multiselect keeps its selection over a rerun while its options are the
\* same, and starts from default=[] when they changed
kept_selection(before, after, sel) ==
    [agencies |-> IF agencies_of(after) = agencies_of(before) THEN sel.agencies ELSE {},
     years |-> IF years_of(after) = years_of(before) THEN sel.years ELSE {}]

\* as cleaning_target, had the buttons passed the filtered view
cleaning_target_filtered(working, view) == view

\* the table a cleaning button passes to DataCleaner: st.session_state.clean_df
cleaning_target(working, view) == working

\* [c for c in clean_df.columns if 'Date' in c or 'Time' in c]
is_date_col(col) == col \in {"Crash Date/Time"}

Handler(op, col, strategy, before, o) ==
    [op |-> op, col |-> col, strategy |-> strategy, error |-> o.error,
     before |-> before, log |-> cleaning_log, msg |-> o.msg,
     history |-> engine.history, selected |-> selected]

\* the tables load_data hands to a session
SessionDomain(col, dtype) ==
    IF col = "Agency Name" THEN {Str("A1"), Str("A2")} ELSE Domain(col, dtype)

SessionSchemas ==
    { Schema(<<"Agency Name", "Vehicle Year">>, <<"object", "float64">>),
      Schema(<<"Agency Name", "Crash Date/Time">>, <<"object", "datetime64">>) }

SessionRowsOf(sc) ==
    {r \in [1..Len(sc.cols) -> UNION {SessionDomain(sc.cols[i], sc.dtype[i]) : i \in 1..Len(sc.cols)}] :
        \A i \in 1..Len(sc.cols) : r[i] \in SessionDomain(sc.cols[i], sc.dtype[i])}

SessionTables ==
    UNION {{[cols |-> sc.cols, dtype |-> sc.dtype, blocks |-> b] :
               b \in SeqUpTo([cells : SessionRowsOf(sc), count : SessionCounts], MaxBlocks)} :
           sc \in SessionSchemas}

\* most values selected in the multiselects at one time
MaxSelected == 1

\* app.py lines 72-77
Init ==
    /\ df = NoTable /\ df0 = NoTable
    /\ results = NoReport /\ results0 = NoReport
    /\ pc = "session"
    /\ raw_df \in SessionTables
    /\ loaded = raw_df
    /\ clean_df = raw_df
    /\ engine = CleaningEngine(clean_df)
    /\ objects = copy_of(copy_of({{"raw_df"}}, "clean_df", "raw_df"), "engine.df", "clean_df")
    /\ cleaning_log = <<>>
    /\ selected = NoFilters
    /\ last = NoHandler

\* impute_column (but for Drop) and standardize_dates assign to a column of the
\* table they are passed and return that table
in_place(op, strategy) == op = "dates" \/ (op = "impute" /\ strategy # "Drop")

\* what a cleaning button does with the outcome of its DataCleaner call: an
\* exception ends the script run before the assignment and the append
Apply(op, col, strategy, o) ==
    /\ last' = Handler(op, col, strategy, clean_df, o)
    /\ clean_df' = o.df
    /\ raw_df' = IF in_place(op, strategy)
                 THEN Written(objects, "raw_df", "clean_df", o.df, raw_df) ELSE raw_df
    /\ engine' = [engine EXCEPT !.df =
                     IF in_place(op, strategy)
                     THEN Written(objects, "engine.df", "clean_df", o.df, @) ELSE @]
    /\ objects' = IF in_place(op, strategy) \/ o.error # ""
                  THEN objects ELSE NewObject(objects, "clean_df")
    /\ cleaning_log' = IF o.error = "" THEN Append(cleaning_log, o.msg) ELSE cleaning_log
    /\ selected' = kept_selection(clean_df, o.df, selected)
    /\ UNCHANGED loaded
    /\ UNCHANGED auditVars

\* the cleaning steps of the session so far, those of the engine included
steps_taken == Len(cleaning_log) + Len(engine.history)

\* the "Apply Imputation" button
ApplyImputation(target_col, strategy) ==
    /\ sidebar_runs(clean_df)
    /\ steps_taken < MaxLog
    /\ HasCol(clean_df, target_col)
    /\ Apply("impute", target_col, strategy,
             impute_column(cleaning_target(clean_df, filtered_df), target_col, strategy))

\* the "Fix Date Formats" button
FixDateFormats(date_col) ==
    /\ sidebar_runs(clean_df)
    /\ steps_taken < MaxLog
    /\ HasCol(clean_df, date_col) /\ is_date_col(date_col)
    /\ Apply("dates", date_col, "",
             standardize_dates(cleaning_target(clean_df, filtered_df), date_col))

\* the "Drop All Duplicates" button
DropAllDuplicates ==
    /\ sidebar_runs(clean_df)
    /\ steps_taken < MaxLog
    /\ Apply("dedupe", "", "", drop_duplicates(cleaning_target(clean_df, filtered_df), <<>>))

\* the "Reset Dataset" button, offered when the working table is empty
ResetDataset ==
    /\ sidebar_runs(clean_df)
    /\ empty(clean_df)
    /\ clean_df' = raw_df
    /\ engine' = CleaningEngine(clean_df')
    /\ objects' = copy_of(copy_of(objects, "clean_df", "raw_df"), "engine.df", "clean_df")
    /\ cleaning_log' = <<>>
    /\ selected' = kept_selection(clean_df, clean_df', selected)
    /\ last' = [NoHandler EXCEPT !.op = "reset", !.before = clean_df, !.log = cleaning_log,
                                 !.history = engine.history, !.selected = selected]
    /\ UNCHANGED <<raw_df, loaded>>
    /\ UNCHANGED auditVars

\* the user changes the selection of the multiselects: the script reruns and
\* builds filtered_df from a copy of the working table
SelectFilters(agencies, years) ==
    /\ sidebar_runs(clean_df)
    /\ agencies \subseteq agencies_of(clean_df)
    /\ years \subseteq years_of(clean_df)
    /\ Cardinality(agencies) + Cardinality(years) <= MaxSelected
    /\ [agencies |-> agencies, years |-> years] # selected
    /\ selected' = [agencies |-> agencies, years |-> years]
    /\ last' = [NoHandler EXCEPT !.op = "filter", !.before = clean_df, !.log = cleaning_log,
                                 !.history = engine.history]
    /\ UNCHANGED <<raw_df, clean_df, cleaning_log, engine, objects, loaded>>
    /\ UNCHANGED auditVars

ColumnNames == {"Agency Name", "Crash Date/Time", "Vehicle Year"}

\* the selections the multiselects can be given
Selections ==
    {sel \in [agencies : SUBSET SessionDomain("Agency Name", "object"),
              years : SUBSET {CurrentYear + 1, CurrentYear + 2}] :
        Cardinality(sel.agencies) + Cardinality(sel.years) <= MaxSelected}

Next ==
    \/ \E c \in ColumnNames, strategy \in {"Mean", "Median", "Mode", "Drop"} :
          ApplyImputation(c, strategy)
    \/ \E c \in ColumnNames : FixDateFormats(c)
    \/ DropAllDuplicates
    \/ ResetDataset

Spec == Init /\ [][Next]_vars

\* SpecFilters: the session with the filters of the sidebar in use
NextFilters ==
    \/ Next
    \/ \E sel \in Selections : SelectFilters(sel.agencies, sel.years)

SpecFilters == Init /\ [][NextFilters]_vars

---------------------------------------------------------------------------
(* src/cleaning_engine.py: the methods of the session's CleaningEngine *)

\* as log_step, had the history been overwritten with the new entry
log_step_overwriting(history, operation, impact) ==
    <<[Timestamp |-> strftime(Ts(Now)), Operation |-> operation, Impact |-> impact]>>

\* CleaningEngine.log_step(operation, impact)
log_step(history, operation, impact) ==
    Append(history,
           [Timestamp |-> strftime(Ts(Now)), Operation |-> operation, Impact |-> impact])

\* df.dropna(subset=columns): the rows with a value in every one of the columns
dropna_any(t, columns) ==
    [t EXCEPT !.blocks =
        SelectSeq(t.blocks,
                  LAMBDA b : \A k \in 1..Len(columns) : ~isnull(b.cells[ColIdx(t, columns[k])]))]

\* df[df[column] >= min_year]: a missing year compares False
at_least(t, column, min_year) ==
    [t EXCEPT !.blocks =
        SelectSeq(t.blocks,
                  LAMBDA b : LET c == b.cells[ColIdx(t, column)]
                             IN  ~isnull(c) /\ RLeq(RInt(min_year), ValOf(c)))]

\* what a method of the engine leaves behind: self.df, one more entry of
\* self.history, and the new contents of every name bound to the object that
\* was changed in place
EngineDid(op, after, changed_in_place, operation, impact) ==
    /\ engine' = [df |-> after, history |-> log_step(engine.history, operation, impact)]
    /\ clean_df' = IF changed_in_place
                   THEN Written(objects, "clean_df", "engine.df", after, clean_df)
                   ELSE clean_df
    /\ raw_df' = IF changed_in_place
                 THEN Written(objects, "raw_df", "engine.df", after, raw_df)
                 ELSE raw_df
    /\ objects' = IF changed_in_place THEN objects ELSE NewObject(objects, "engine.df")
    /\ last' = [NoHandler EXCEPT !.op = op, !.before = clean_df, !.log = cleaning_log,
                                 !.history = engine.history, !.selected = selected]
    /\ UNCHANGED <<cleaning_log, selected, loaded>>
    /\ UNCHANGED auditVars

\* CleaningEngine.drop_nulls(columns): dropna(inplace=True) on self.df
EngineDropNulls(columns) ==
    /\ steps_taken < MaxLog
    /\ columns # <<>>
    /\ \A k \in 1..Len(columns) : HasCol(engine.df, columns[k])
    /\ LET after == dropna_any(engine.df, columns)
       IN  EngineDid("drop_nulls", after, TRUE, ToString(columns),
                     ToString(total_rows_of(engine.df) - total_rows_of(after)))

\* CleaningEngine.fill_nulls(column, value): self.df[column].fillna(value,
\* inplace=True) fills the column of self.df, or only a temporary Series
\* (pandas with copy-on-write); the entry is logged either way
EngineFillNulls(column, value, reaches_frame) ==
    /\ steps_taken < MaxLog
    /\ HasCol(engine.df, column)
    /\ LET count == isnull_sum(Series(engine.df, column))
           after == IF reaches_frame THEN fillna(engine.df, column, value) ELSE engine.df
       IN  EngineDid("fill_nulls", after, TRUE, column, ToString(count))

\* CleaningEngine.filter_by_year(column, min_year): the comparison raises
\* TypeError on a text or datetime column, before anything is assigned
EngineFilterByYear(column, min_year) ==
    /\ steps_taken < MaxLog
    /\ HasCol(engine.df, column)
    /\ engine.df.dtype[ColIdx(engine.df, column)] = "float64"
    /\ Comparable(Series(engine.df, column))
    /\ LET after == at_least(engine.df, column, min_year)
       IN  EngineDid("filter_by_year", after, FALSE, column,
                     ToString(total_rows_of(engine.df) - total_rows_of(after)))

\* the column lists drop_nulls is given
ColumnLists ==
    {<<c>> : c \in ColumnNames} \cup {<<"Agency Name", c>> : c \in ColumnNames \ {"Agency Name"}}

\* SpecEngine: the session, with the methods of its engine called as well
NextEngine ==
    \/ Next
    \/ \E columns \in ColumnLists : EngineDropNulls(columns)
    \/ \E c \in ColumnNames, value \in {Num(0), Str("N/A")}, reaches_frame \in BOOLEAN :
          EngineFillNulls(c, value, reaches_frame)
    \/ \E c \in ColumnNames : EngineFilterByYear(c, CurrentYear + 2)

SpecEngine == Init /\ [][NextEngine]_vars

---------------------------------------------------------------------------
(* What the claims about impute_column speak of *)

\* the last handler was impute_column(col, strategy) on a column of that dtype
Imputed(strategies, dtypes) ==
    /\ last.op = "impute"
    /\ last.strategy \in strategies
    /\ last.before.dtype[ColIdx(last.before, last.col)] \in dtypes

\* the rows kept their number and order, and every value the column had is
\* still in its place
ValuesKept(before, after, col) ==
    /\ Len(after.blocks) = Len(before.blocks)
    /\ \A i \in 1..Len(before.blocks) :
          /\ after.blocks[i].count = before.blocks[i].count
          /\ ~isnull(before.blocks[i].cells[ColIdx(before, col)]) =>
                after.blocks[i].cells[ColIdx(after, col)]
                    = before.blocks[i].cells[ColIdx(before, col)]

\* the rows of the table that have a value in the column
PresentCount(t, col) == total_rows_of(t) - MissingCount(t, ColIdx(t, col))

\* the arithmetic mean of the values the column has, every row counting once
ArithmeticMean(t, col) ==
    LET j == ColIdx(t, col)
    IN  RDivInt(SumRs([i \in 1..Len(t.blocks) |->
                    IF isnull(t.blocks[i].cells[j]) THEN RInt(0)
                    ELSE RMul(ValOf(t.blocks[i].cells[j]), RInt(t.blocks[i].count))]),
                PresentCount(t, col))

\* the text shows x to two decimals: a number of hundredths within half a
\* hundredth of x
ShowsToTwoDecimals(text, x) ==
    LET q == (100 * x.n) \div x.d
    IN  \E h \in {q - 1, q, q + 1} :
            /\ 2 * Abs(h * x.d - 100 * x.n) <= x.d
            /\ text = ToString(h)

\* C9 as claimed: Mean on a numeric column with M missing values, M from 0 up
\* to the column length, leaves zero missing values in the column, keeps every
\* value it had and the row count, and reports the arithmetic mean of the
\* values it had.
C9_MeanFillsEveryMissing ==
    Imputed({"Mean"}, {"float64"}) =>
        /\ last.error = ""
        /\ MissingCount(clean_df, ColIdx(clean_df, last.col)) = 0
        /\ ValuesKept(last.before, clean_df, last.col)
        /\ total_rows_of(clean_df) = total_rows_of(last.before)
        /\ PresentCount(last.before, last.col) > 0 =>
              ShowsToTwoDecimals(last.msg.shown, ArithmeticMean(last.before, last.col))

\* C9 as amended: the same for M less than the column length; when no row has
\* a value (M is the column length) the column is returned as it was, still
\* entirely missing, and the message reports nan.
C9_MeanFillsWhenSomeValue ==
    Imputed({"Mean"}, {"float64"}) =>
        /\ last.error = ""
        /\ ValuesKept(last.before, clean_df, last.col)
        /\ total_rows_of(clean_df) = total_rows_of(last.before)
        /\ IF PresentCount(last.before, last.col) > 0
           THEN /\ MissingCount(clean_df, ColIdx(clean_df, last.col)) = 0
                /\ ShowsToTwoDecimals(last.msg.shown,
                                      ArithmeticMean(last.before, last.col))
           ELSE /\ clean_df = last.before
                /\ last.msg.shown = "nan"

\* two of three rows had no year and got the year of the third
C9_Witness ==
    /\ Imputed({"Mean"}, {"float64"})
    /\ total_rows_of(last.before) = 3
    /\ MissingCount(last.before, ColIdx(last.before, last.col)) = 2
    /\ MissingCount(clean_df, ColIdx(clean_df, last.col)) = 0
    /\ last.msg.shown = ToString((CurrentYear + 2) * 100)
    /\ cleaning_log # <<>>

\* C10: Mean or Median on a non-numeric column fails with an error instead of
\* returning a table: the working table is left as it was, no value is filled
\* and nothing is appended to the cleaning log.  (Stated for a column that
\* holds at least one value; any exception counts as the error.)
C10_NonNumericMeanFails ==
    (/\ Imputed({"Mean", "Median"}, {"object", "datetime64"})
     /\ PresentCount(last.before, last.col) > 0)
        => /\ last.error # ""
           /\ clean_df = last.before
           /\ cleaning_log = last.log

---------------------------------------------------------------------------
(* SpecCleaner: a caller hands a table to DataCleaner.drop_duplicates and   *)
(* DataCleaner.standardize_dates, and hands each returned table to the next *)
(* call.                                                                    *)

\* most calls a caller makes in a row
MaxCalls == 2

\* column lists of the tables handed to the cleaner: a date column still held
\* as text, and one already parsed
CleanerSchemas ==
    { Schema(<<"Report Number", "Crash Date/Time">>, <<"object", "object">>),
      Schema(<<"Agency Name", "Crash Date/Time">>, <<"object", "datetime64">>) }

CleanerTables ==
    UNION {{[cols |-> sc.cols, dtype |-> sc.dtype, blocks |-> b] :
               b \in SeqUpTo([cells : RowsOf(sc), count : SessionCounts], MaxBlocks)} :
           sc \in CleanerSchemas}

\* the subset arguments of drop_duplicates: <<>> stands for None
SubsetsOf(t) ==
    {<<>>} \cup {<<t.cols[i]>> : i \in 1..Len(t.cols)}
           \cup (IF Len(t.cols) = 2 THEN {t.cols} ELSE {})

\* one call of the cleaner: what was called with which argument, and its outcome
Call(op, arg, o, calls) ==
    [op |-> op, arg |-> arg, error |-> o.error, df |-> o.df, msg |-> o.msg,
     calls |-> calls]

NoCall == Call("", <<>>, Outcome("", NoTable, NoMessage), 0)

InitCleaner ==
    /\ NoSession
    /\ df \in CleanerTables
    /\ df0 = df
    /\ results = NoCall
    /\ results0 = NoCall
    /\ pc = "cleaner"

\* df, msg = DataCleaner.<op>(df, arg)
Called(op, arg, o) ==
    /\ results.calls < MaxCalls
    /\ df0' = df
    /\ df' = o.df
    /\ results0' = results
    /\ results' = Call(op, arg, o, results.calls + 1)
    /\ pc' = pc
    /\ UNCHANGED sessionVars

CallDropDuplicates(subset) ==
    /\ subset \in SubsetsOf(df)
    /\ Called("drop_duplicates", subset, drop_duplicates(df, subset))

CallStandardizeDates(col) ==
    /\ HasCol(df, col)
    /\ Called("standardize_dates", <<col>>, standardize_dates(df, col))

NextCleaner ==
    \/ \E subset \in UNION {SubsetsOf(t) : t \in {[cols |-> sc.cols] : sc \in CleanerSchemas}} :
          CallDropDuplicates(subset)
    \/ \E col \in {"Crash Date/Time"} : CallStandardizeDates(col)

SpecCleaner == InitCleaner /\ [][NextCleaner]_vars

---------------------------------------------------------------------------
(* What the claims about drop_duplicates and standardize_dates speak of *)

\* the indexes of the columns a subset names (all of them for None)
SubsetIdx(t, subset) ==
    {j \in 1..Len(t.cols) : subset = <<>> \/ \E k \in 1..Len(subset) : subset[k] = t.cols[j]}

\* two rows agree on the subset
SameOn(t, subset, r1, r2) == \A j \in SubsetIdx(t, subset) : r1[j] = r2[j]

\* the rows of the table that agree on the subset with an earlier row: all the
\* rows of a block but its first, and all of them when an earlier block agrees
DuplicateRows(t, subset) ==
    SumInts([i \in 1..Len(t.blocks) |->
                IF \E h \in 1..(i - 1) : SameOn(t, subset, t.blocks[h].cells, t.blocks[i].cells)
                THEN t.blocks[i].count ELSE t.blocks[i].count - 1])

\* the rows of the table that agree with no earlier row, in their order
FirstRows(t, subset) ==
    LET firsts == SelectSeq([i \in 1..Len(t.blocks) |-> i],
                            LAMBDA i : ~\E h \in 1..(i - 1) :
                                SameOn(t, subset, t.blocks[h].cells, t.blocks[i].cells))
    IN  [k \in 1..Len(firsts) |-> [cells |-> t.blocks[firsts[k]].cells, count |-> 1]]

\* C11: drop_duplicates returns, for every table and every column subset (or
\* none), the rows that agree on the subset with no earlier row, and reports
\* the number of rows it removed, which is the number of rows that agree with
\* an earlier one; applied again with the same subset to the table it
\* returned, it returns that table and reports 0.
C11_DropDuplicatesIdempotent ==
    results.op = "drop_duplicates" =>
        /\ results.error = ""
        /\ df = results.df
        /\ df.cols = df0.cols /\ df.dtype = df0.dtype
        /\ df.blocks = FirstRows(df0, results.arg)
        /\ results.msg.shown = ToString(DuplicateRows(df0, results.arg))
        /\ (results0.op = "drop_duplicates" /\ results0.arg = results.arg) =>
              /\ df = df0
              /\ results.msg.shown = "0"

\* 3 rows, the last two agreeing with the first on the report number only:
\* the first call removed 2 of them, the second call none
C11_Witness ==
    /\ results.op = "drop_duplicates" /\ results0.op = "drop_duplicates"
    /\ results.arg = <<"Report Number">> /\ results0.arg = results.arg
    /\ results0.msg.shown = "2"
    /\ results.msg.shown = "0"
    /\ Len(df.blocks) = 1
    /\ df = df0

\* the cell is a value that is no date
Unparsable(c) == c.k = "str" /\ c.s \notin ParsableDates

\* the rows of the table whose value in column j is no date
UnparsableCount(t, j) ==
    SumInts([i \in 1..Len(t.blocks) |->
                IF Unparsable(t.blocks[i].cells[j]) THEN t.blocks[i].count ELSE 0])

\* the failure count a message of standardize_dates states (none stated: 0)
FailuresReported(msg) == IF msg.shown = "" THEN "0" ELSE msg.shown

\* C12: standardize_dates returns without raising whatever the column holds:
\* every value that is no date is missing afterwards, every other cell of the
\* column is the timestamp it named (or still missing), the rest of the table
\* is as it was, and the message states the number of values that were no
\* date; run again on the column it returned, it returns the same table and
\* states no failure.
C12_StandardizeDatesCoerces ==
    results.op = "standardize_dates" =>
        LET j == ColIdx(df0, results.arg[1])
        IN  /\ results.error = ""
            /\ df = results.df
            /\ df.cols = df0.cols
            /\ Len(df.blocks) = Len(df0.blocks)
            /\ \A i \in 1..Len(df0.blocks) :
                  /\ df.blocks[i].count = df0.blocks[i].count
                  /\ \A h \in 1..Len(df0.cols) :
                        h # j => df.blocks[i].cells[h] = df0.blocks[i].cells[h]
                  /\ Unparsable(df0.blocks[i].cells[j]) => isnull(df.blocks[i].cells[j])
                  /\ df0.blocks[i].cells[j].k = "ts" =>
                        df.blocks[i].cells[j] = df0.blocks[i].cells[j]
                  /\ (df0.blocks[i].cells[j].k = "str" /\ ~Unparsable(df0.blocks[i].cells[j])) =>
                        df.blocks[i].cells[j].k = "ts"
                  /\ isnull(df0.blocks[i].cells[j]) => isnull(df.blocks[i].cells[j])
            /\ FailuresReported(results.msg) = ToString(UnparsableCount(df0, j))
            /\ (results0.op = "standardize_dates" /\ results0.arg = results.arg) =>
                  /\ df = df0
                  /\ FailuresReported(results.msg) = "0"

\* a text column with a missing value and two values that are no date: the
\* first call reported 2 failures, the second none
C12_Witness ==
    /\ results.op = "standardize_dates" /\ results0.op = "standardize_dates"
    /\ results0.msg.shown = "2"
    /\ results.msg.shown = ""
    /\ MissingCount(df, ColIdx(df, "Crash Date/Time")) = 3
    /\ total_rows_of(df) = 3
    /\ df.dtype[ColIdx(df, "Crash Date/Time")] = "datetime64"
    /\ df = df0

---------------------------------------------------------------------------
(* modules/insights.py: InsightGenerator *)

\* the blocks of a series in the order value_counts() lists their values:
\* the first block that holds a most frequent non-missing value
TopBlock(s) ==
    CHOOSE i \in 1..Len(s) :
        /\ ~isnull(s[i].v)
        /\ \A j \in 1..Len(s) : ~isnull(s[j].v) => CountOf(s, s[j].v) <= CountOf(s, s[i].v)
        /\ \A j \in 1..(i - 1) : isnull(s[j].v) \/ CountOf(s, s[j].v) < CountOf(s, s[i].v)

\* InsightGenerator.get_top_performer(df, cat_col)
get_top_performer(t, cat_col) ==
    IF empty(t) \/ ~HasCol(t, cat_col) THEN [name |-> Str("N/A"), value |-> 0]
    ELSE LET s == Series(t, cat_col)
         IN  IF ValuesOf(s) = {} THEN Raised("IndexError")     \* counts.index[0]
             ELSE [name |-> s[TopBlock(s)].v, value |-> CountOf(s, s[TopBlock(s)].v)]

\* InsightGenerator.get_main_pain_point(df): idxmax is the first column with
\* the highest count
get_main_pain_point(t) ==
    IF empty(t) THEN [column |-> "N/A", count |-> 0]
    ELSE LET null_counts == [j \in 1..Len(t.cols) |-> isnull_sum(Series(t, t.cols[j]))]
             top == CHOOSE j \in 1..Len(t.cols) :
                       /\ \A h \in 1..Len(t.cols) : null_counts[h] <= null_counts[j]
                       /\ \A h \in 1..(j - 1) : null_counts[h] < null_counts[j]
         IN  [column |-> t.cols[top], count |-> null_counts[top]]

\* int(df['Vehicle Year'].max()): int() of NaN and of a text raise ValueError
latest_year_of(t) ==
    IF ~HasCol(t, "Vehicle Year") THEN "unknown"
    ELSE LET V == ValuesOf(Series(t, "Vehicle Year"))
         IN  IF V = {} \/ \E v \in V : v.k # "num" THEN "ValueError"
             ELSE LET top == CHOOSE v \in V : \A w \in V : RLeq(ValOf(w), ValOf(v))
                  IN  ToString(top.n \div top.d)

\* InsightGenerator.generate_automated_insight(df): the facts the returned text
\* names, or the exception that leaves it
generate_automated_insight(t) ==
    IF empty(t) THEN [insight |-> "No data available to generate insights."]
    ELSE LET top_agency == get_top_performer(t, "Agency Name")
             pain_point == get_main_pain_point(t)
             latest_year == latest_year_of(t)
         IN  IF "exception" \in DOMAIN top_agency THEN top_agency
             ELSE IF latest_year = "ValueError" THEN Raised("ValueError")
             ELSE [insight |-> "Key Insight",
                   top_agency |-> top_agency,
                   latest_year |-> latest_year,
                   pain_point |-> pain_point]

\* column lists of the tables the dashboard shows: the agency and the year,
\* each of them alone, neither
InsightSchemas ==
    { Schema(<<>>, <<>>),
      Schema(<<"Agency Name", "Vehicle Year">>, <<"object", "float64">>),
      Schema(<<"Vehicle Year", "Speed Limit">>, <<"float64", "float64">>),
      Schema(<<"Speed Limit", "Agency Name">>, <<"float64", "object">>),
      Schema(<<"Speed Limit", "Report Number">>, <<"float64", "object">>) }

InsightTables ==
    UNION {{[cols |-> sc.cols, dtype |-> sc.dtype, blocks |-> b] :
               b \in SeqUpTo([cells : RowsOf(sc), count : SessionCounts], MaxBlocks)} :
           sc \in InsightSchemas}

InitInsight ==
    /\ NoSession
    /\ df \in InsightTables
    /\ df0 = df
    /\ results = NoReport
    /\ results0 = NoReport
    /\ pc = "input"

\* InsightGenerator.generate_automated_insight(filtered_df): the table is read
\* and never written
GenerateInsight ==
    /\ pc = "input"
    /\ results' = generate_automated_insight(df)
    /\ df0' = df
    /\ df' = df
    /\ pc' = "insight"
    /\ UNCHANGED results0
    /\ UNCHANGED sessionVars

NextInsight == GenerateInsight

SpecInsight == InitInsight /\ [][NextInsight]_vars

\* the rows of the table that hold the value in the column
Frequency(t, col, v) ==
    SumInts([i \in 1..Len(t.blocks) |->
                IF t.blocks[i].cells[ColIdx(t, col)] = v THEN t.blocks[i].count ELSE 0])

\* C17: generate_automated_insight returns a text for every table and leaves
\* the table as it was: the 'no data' message for an empty table; otherwise a
\* narrative that names a most frequent 'Agency Name' value with its
\* frequency, a column with the highest missing count with that count, and
\* the maximum 'Vehicle Year' -- also when 'Agency Name' or 'Vehicle Year' is
\* absent or holds no value.
C17_InsightNeverRaises ==
    pc = "insight" =>
        /\ df = df0
        /\ "insight" \in DOMAIN results
        /\ empty(df) <=> results.insight = "No data available to generate insights."
        /\ ~empty(df) =>
              /\ (HasCol(df, "Agency Name") /\ PresentRows(df, "Agency Name") > 0) =>
                    /\ ~isnull(results.top_agency.name)
                    /\ results.top_agency.value
                           = Frequency(df, "Agency Name", results.top_agency.name)
                    /\ \A i \in 1..Len(df.blocks) :
                          LET v == df.blocks[i].cells[ColIdx(df, "Agency Name")]
                          IN  ~isnull(v) =>
                                  Frequency(df, "Agency Name", v) <= results.top_agency.value
              /\ HasCol(df, results.pain_point.column)
              /\ results.pain_point.count
                     = MissingCount(df, ColIdx(df, results.pain_point.column))
              /\ \A j \in 1..Len(df.cols) : MissingCount(df, j) <= results.pain_point.count
              /\ (HasCol(df, "Vehicle Year") /\ PresentRows(df, "Vehicle Year") > 0) =>
                    \E i \in 1..Len(df.blocks) :
                        LET v == df.blocks[i].cells[ColIdx(df, "Vehicle Year")]
                        IN  /\ ~isnull(v)
                            /\ results.latest_year = ToString(v.n \div v.d)
                            /\ \A h \in 1..Len(df.blocks) :
                                  LET w == df.blocks[h].cells[ColIdx(df, "Vehicle Year")]
                                  IN  ~isnull(w) => w.n * v.d <= v.n * w.d

---------------------------------------------------------------------------
(* What the claims about the session speak of *)

\* a is what b began with
IsPrefix(a, b) == Len(a) <= Len(b) /\ \A i \in 1..Len(a) : b[i] = a[i]

ButtonOps == {"impute", "dates", "dedupe"}
EngineOps == {"drop_nulls", "fill_nulls", "filter_by_year"}

\* what a completed cleaning operation did to the two logs: one entry more in
\* its own log, the log before it a prefix of the log after it, the other log
\* untouched; an operation that raised appended nothing
OneEntryAppended ==
    /\ (last.op \in ButtonOps /\ last.error = "") =>
          /\ Len(cleaning_log) = Len(last.log) + 1
          /\ cleaning_log[Len(cleaning_log)] = last.msg
          /\ engine.history = last.history
    /\ (last.op \in ButtonOps /\ last.error # "") =>
          /\ cleaning_log = last.log
          /\ engine.history = last.history
    /\ last.op \in EngineOps =>
          /\ Len(engine.history) = Len(last.history) + 1
          /\ cleaning_log = last.log

\* C13 as claimed: every completed cleaning operation appends exactly one
\* entry, and after every action of the session the log as it was before the
\* action is a prefix of the log after it.
C13_LogAppendOnly ==
    last.op # "" =>
        /\ OneEntryAppended
        /\ IsPrefix(last.log, cleaning_log)
        /\ IsPrefix(last.history, engine.history)

\* C13 as amended: the same for every action but Reset Dataset, which starts
\* over with an empty cleaning log and a new engine with an empty history.
C13_LogAppendOnlyUntilReset ==
    /\ (last.op # "" /\ last.op # "reset") =>
          /\ OneEntryAppended
          /\ IsPrefix(last.log, cleaning_log)
          /\ IsPrefix(last.history, engine.history)
    /\ last.op = "reset" =>
          /\ cleaning_log = <<>>
          /\ engine.history = <<>>

\* a second method of the engine was called after a first one: two entries,
\* the first one still in its place
C13_Witness ==
    /\ last.op \in EngineOps
    /\ Len(last.history) = 1
    /\ Len(engine.history) = 2
    /\ engine.history[1] = last.history[1]
    /\ engine.history[1].Operation # engine.history[2].Operation

\* the table the last button returned, computed from the whole working table
\* it found
OfWholeTable ==
    CASE last.op = "impute" -> impute_column(last.before, last.col, last.strategy).df
      [] last.op = "dates" -> standardize_dates(last.before, last.col).df
      [] last.op = "dedupe" -> drop_duplicates(last.before, <<>>).df
      [] OTHER -> last.before

\* C14: building the filtered view leaves the working table and the cleaning
\* log as they were, whatever is selected; a cleaning button pressed while a
\* selection is active gives the working table that the operation returns for
\* the whole working table, the rows outside the view included.
C14_CleaningIgnoresFilters ==
    /\ last.op = "filter" =>
          /\ clean_df = last.before
          /\ cleaning_log = last.log
          /\ raw_df = loaded
    /\ last.op \in ButtonOps =>
          /\ clean_df = OfWholeTable
          /\ IsPrefix(last.log, cleaning_log)

\* one agency was selected, no row of the view missed a year, and Mode filled
\* the years of the rows outside the view
C14_Witness ==
    /\ last.op = "impute" /\ last.strategy = "Mode" /\ last.col = "Vehicle Year"
    /\ last.selected.agencies # {}
    /\ LET view == filtered_view(last.before, last.selected)
       IN  /\ view.blocks # <<>>
           /\ view # last.before
           /\ MissingCount(view, ColIdx(view, "Vehicle Year")) = 0
           /\ MissingCount(last.before, ColIdx(last.before, "Vehicle Year")) > 0
    /\ MissingCount(clean_df, ColIdx(clean_df, "Vehicle Year")) = 0
    /\ total_rows_of(clean_df) = total_rows_of(last.before)

\* C16: raw_df holds the table as it was loaded after every sequence of
\* cleaning operations and engine methods; Reset Dataset makes the working
\* table equal to the loaded table and empties the cleaning log; a method of
\* the engine leaves the table the engine was constructed from (the working
\* table) as it was.
C16_RawTableNeverModified ==
    /\ raw_df = loaded
    /\ last.op = "reset" =>
          /\ clean_df = loaded
          /\ cleaning_log = <<>>
          /\ engine = CleaningEngine(loaded)
    /\ last.op \in EngineOps => clean_df = last.before

\* two cleaning steps, one of them in place, emptied the working table; Reset
\* Dataset brought the loaded table back
C16_Witness ==
    /\ last.op = "reset"
    /\ Len(last.log) = 2
    /\ \E i \in 1..2 : last.log[i].kind \in {"Imputed Mode", "Standardized to datetime"}
    /\ empty(last.before)
    /\ ~empty(loaded)
    /\ clean_df = loaded
    /\ raw_df = loaded
    /\ cleaning_log = <<>>

=============================================================================
